---- MODULE Spec2Model ----
(***************************************************************************)
(* Model of the random-graph generators of src/graphs.py (Graph, Tree,     *)
(* generate_erdos_renyi, generate_galton_watson_tree) and of the radial    *)
(* tree layout of src/visualization.py (GaltonWatson.refresh_tree and      *)
(* compute_radial_layout).                                                 *)
(*                                                                         *)
(* Real numbers are exact rationals over a named denominator:              *)
(*   - the edge probability p and every uniform draw are numerators over   *)
(*     Res, so a draw u in 0..Res-1 is the real u/Res in [0,1);            *)
(*   - an angle is a whole number of units of pi/n_leaves, so a full turn  *)
(*     is 2*n_leaves units and pi is n_leaves units;                       *)
(*   - a radius is a numerator over HundredPct * max(1, max_level), in     *)
(*     units of outer_radius.                                              *)
(*   - a spring-layout temperature or step size is a numerator over        *)
(*     TenthDen * iterations.                                              *)
(* The random source is a nondeterministic choice per call; `draws` keeps  *)
(* the values the current run has consumed, in order.                      *)
(***************************************************************************)
EXTENDS Integers, Sequences, FiniteSets, TLC

\* ------------------------------------------------------------------ bounds
MaxN == 3
Res == 2
MaxLam == 1
MaxGen == 3
MaxOffspring == 3
MaxNodes == 8
MaxIter == 3
MaxTemp == 2

VARIABLES
  prog,                  \* which entry point this behaviour exercises
  run,                   \* 1: first run; 2: second run, fed the first run's draws
  tape,                  \* the draws of the first run, replayed by the second
  saved,                 \* the output of the first run
  draws,                 \* values consumed from the random source by this run
  examined,              \* ER: the pairs (i, j) for which a draw was made, in order
  built,                 \* which of the locals `graph`, `tree` have been constructed
  last_call,             \* Graph: what the latest add_edge call did
  n, p, graph, i, j, er_pc,
  lam, max_generations, tree, current_generation, next_generation,
  node_counter, generation, reached_max, sizes_per_generation,
  parent_idx, num_offspring, created, child_id, gw_pc,
  leaves, leaf_angles, span, pos, truncated,
  iterations, initial_temp, iteration, temp, step_size, sp_pc,
  schedule               \* spring layout: the temp and step_size of each iteration run

replayVars == <<run, tape, saved>>
erVars == <<n, p, graph, i, j, er_pc, examined>>
gwVars == <<lam, max_generations, tree, current_generation, next_generation,
            node_counter, generation, reached_max, sizes_per_generation,
            parent_idx, num_offspring, created, child_id, gw_pc>>
layoutVars == <<leaves, leaf_angles, span, pos, truncated>>
springVars == <<iterations, initial_temp, iteration, temp, step_size, sp_pc, schedule>>
vars == <<prog, replayVars, draws, built, last_call, erVars, gwVars, layoutVars,
          springVars>>

\* ----------------------------------------------------------------- helpers
InSeq(x, s) == \E k \in 1..Len(s) : s[k] = x

Range(s) == {s[k] : k \in 1..Len(s)}

RECURSIVE SumSeq(_)
SumSeq(s) == IF s = <<>> THEN 0 ELSE s[1] + SumSeq(Tail(s))

Max2(a, b) == IF a >= b THEN a ELSE b

SetMin(S) == CHOOSE x \in S : \A y \in S : x <= y

SetMax(S) == CHOOSE x \in S : \A y \in S : x >= y

\* A Python dict as a function over its key set.
EmptyDict == [k \in {} |-> 0]

DictSet(d, k, v) == [x \in (DOMAIN d) \cup {k} |-> IF x = k THEN v ELSE d[x]]

DictGet(d, k, default) == IF k \in DOMAIN d THEN d[k] ELSE default

\* ------------------------------------------------------------------- Graph
\* Graph.__init__
Graph(n_nodes) ==
  [n_nodes |-> n_nodes, edges |-> <<>>, adjacency |-> [k \in 0..(n_nodes - 1) |-> <<>>]]

\* the three appends of Graph.add_edge
Graph_append_edge(g, u, v) ==
  [g EXCEPT !.edges = Append(@, <<u, v>>),
            !.adjacency = [k \in DOMAIN g.adjacency |->
                             IF u = v /\ k = u THEN Append(Append(g.adjacency[k], v), u)
                             ELSE IF k = u THEN Append(g.adjacency[k], v)
                             ELSE IF k = v THEN Append(g.adjacency[k], u)
                             ELSE g.adjacency[k]]]

\* Graph.add_edge without `v not in self.adjacency[u]`
Graph_add_edge_no_membership_test(g, u, v) ==
  IF u # v THEN Graph_append_edge(g, u, v) ELSE g

\* Graph.add_edge
Graph_add_edge(g, u, v) ==
  IF u # v /\ ~InSeq(v, g.adjacency[u])
  THEN Graph_append_edge(g, u, v)
  ELSE g

\* ------------------------------------------------------------ Erdos-Renyi
\* The uniform source np.random.random(): values of [0,1) as numerators over Res.
UniformDraws == 0..(Res - 1)

\* What the random source hands out at this point: anything in the first run,
\* the recorded value in the second.
Feed(all) ==
  IF run = 2 /\ Len(draws) < Len(tape) THEN {tape[Len(draws) + 1]} \cap all ELSE all

\* `<=` for `<`
bernoulli_le(u, prob) == u <= prob

\* `np.random.random() < p`
bernoulli(u, prob) == u < prob

\* the checks without `n < 0`
valid_er_p_only(nn, prob) == 0 <= prob /\ prob <= Res

\* the two parameter checks of generate_erdos_renyi
valid_er(nn, prob) == (0 <= prob /\ prob <= Res) /\ ~(nn < 0)

\* range(i, n) for range(i + 1, n)
first_pair_from_i(nn) == IF nn >= 1 THEN <<0, 0>> ELSE <<nn, nn>>

\* for i in range(n): for j in range(i + 1, n): the first pair reached, or
\* <<n, n>> when the loops have no iteration.
first_pair(nn) == IF nn >= 2 THEN <<0, 1>> ELSE <<nn, nn>>

\* the pair reached after (a, b), or <<n, n>> when both loops are exhausted
next_pair(a, b, nn) ==
  IF b + 1 < nn THEN <<a, b + 1>>
  ELSE IF a + 2 < nn THEN <<a + 1, a + 2>>
  ELSE <<nn, nn>>

\* generate_erdos_renyi, entry: parameter checks, then graph = Graph(n)
ERCall ==
  /\ prog = "er" /\ er_pc = "call"
  /\ IF valid_er(n, p)
     THEN /\ graph' = Graph(n)
          /\ built' = built \cup {"graph"}
          /\ i' = first_pair(n)[1]
          /\ j' = first_pair(n)[2]
          /\ er_pc' = "loop"
     ELSE /\ er_pc' = "error"
          /\ UNCHANGED <<graph, built, i, j>>
  /\ UNCHANGED <<prog, springVars, replayVars, draws, examined, last_call, n, p, gwVars, layoutVars>>

\* one iteration of the inner loop: a draw, and the edge when the draw is < p
ERPair ==
  /\ prog = "er" /\ er_pc = "loop" /\ i < n
  /\ \E u \in Feed(UniformDraws) :
       /\ draws' = Append(draws, u)
       /\ examined' = Append(examined, <<i, j>>)
       /\ graph' = IF bernoulli(u, p) THEN Graph_add_edge(graph, i, j) ELSE graph
  /\ i' = next_pair(i, j, n)[1]
  /\ j' = next_pair(i, j, n)[2]
  /\ UNCHANGED <<prog, springVars, replayVars, built, last_call, n, p, er_pc, gwVars, layoutVars>>

\* both loops exhausted: return graph
ERReturn ==
  /\ prog = "er" /\ er_pc = "loop" /\ ~(i < n)
  /\ er_pc' = "done"
  /\ UNCHANGED <<prog, springVars, replayVars, draws, examined, built, last_call, n, p, graph, i, j,
                 gwVars, layoutVars>>

\* A caller's add_edge(u, v) on a Graph it constructed itself.
GraphAddEdge ==
  /\ prog = "graph"
  /\ \E u \in 0..(graph.n_nodes - 1), v \in 0..(graph.n_nodes - 1) :
       /\ graph' = Graph_add_edge(graph, u, v)
       /\ last_call' = IF graph' = graph THEN "ignored" ELSE "added"
  /\ UNCHANGED <<prog, springVars, replayVars, draws, examined, built, n, p, i, j, er_pc,
                 gwVars, layoutVars>>

\* -------------------------------------------------------------------- Tree
\* Tree.__init__
Tree ==
  [nodes |-> <<>>, edges |-> <<>>, children |-> EmptyDict, parents |-> EmptyDict,
   levels |-> EmptyDict]

\* Tree.add_node called without its level argument (the default, 0)
Tree_add_node_default_level(t, node_id, level) ==
  [t EXCEPT !.nodes = Append(@, node_id),
            !.children = DictSet(@, node_id, <<>>),
            !.levels = DictSet(@, node_id, 0)]

\* Tree.add_node
Tree_add_node(t, node_id, level) ==
  [t EXCEPT !.nodes = Append(@, node_id),
            !.children = DictSet(@, node_id, <<>>),
            !.levels = DictSet(@, node_id, level)]

\* Tree.add_edge without the parents entry
Tree_add_edge_no_parent(t, parent, child) ==
  LET ch == IF parent \notin DOMAIN t.children
            THEN DictSet(t.children, parent, <<>>)
            ELSE t.children
  IN [t EXCEPT !.edges = Append(@, <<parent, child>>),
               !.children = DictSet(ch, parent, Append(ch[parent], child))]

\* Tree.add_edge
Tree_add_edge(t, parent, child) ==
  LET ch == IF parent \notin DOMAIN t.children
            THEN DictSet(t.children, parent, <<>>)
            ELSE t.children
  IN [t EXCEPT !.edges = Append(@, <<parent, child>>),
               !.children = DictSet(ch, parent, Append(ch[parent], child)),
               !.parents = DictSet(@, child, parent)]

\* Tree.total_population
total_population(t) == Len(t.nodes)

\* ----------------------------------------------------------- Galton-Watson
\* np.random.poisson(lam): any natural number, for every lam > 0. The model
\* stops the population at MaxNodes.
PoissonDraws == {k \in 0..MaxOffspring : node_counter + k <= MaxNodes}

\* the two parameter checks of generate_galton_watson_tree
valid_gw(l, m) == ~(l <= 0) /\ ~(m <= 0)

\* the while condition without its generation limit
alive_no_limit(cur, gen, maxgen) == cur # <<>>

\* the while condition
alive(cur, gen, maxgen) == cur # <<>> /\ gen < maxgen

\* generate_galton_watson_tree, entry: parameter checks, then the root
GWCall ==
  /\ prog = "gw" /\ gw_pc = "call"
  /\ IF valid_gw(lam, max_generations)
     THEN /\ tree' = Tree_add_node(Tree, 0, 0)
          /\ built' = built \cup {"tree"}
          /\ current_generation' = <<0>>
          /\ node_counter' = 1
          /\ generation' = 0
          /\ reached_max' = FALSE
          /\ sizes_per_generation' = <<1>>
          /\ gw_pc' = "while"
     ELSE /\ gw_pc' = "error"
          /\ UNCHANGED <<tree, built, current_generation, node_counter, generation,
                         reached_max, sizes_per_generation>>
  /\ UNCHANGED <<prog, springVars, replayVars, draws, last_call, erVars, lam, max_generations,
                 next_generation, parent_idx, num_offspring, created, child_id,
                 layoutVars>>

\* the while test: enter a generation step, or return
GWWhile ==
  /\ prog = "gw" /\ gw_pc = "while"
  /\ IF alive(current_generation, generation, max_generations)
     THEN /\ next_generation' = <<>>
          /\ generation' = generation + 1
          /\ parent_idx' = 1
          /\ gw_pc' = "for_parent"
     ELSE /\ gw_pc' = "done"
          /\ UNCHANGED <<next_generation, generation, parent_idx>>
  /\ UNCHANGED <<prog, springVars, replayVars, draws, built, last_call, erVars, lam,
                 max_generations, tree, current_generation, node_counter, reached_max,
                 sizes_per_generation, num_offspring, created, child_id, layoutVars>>

\* for parent in current_generation: the offspring draw of the next parent
GWDraw ==
  /\ prog = "gw" /\ gw_pc = "for_parent" /\ parent_idx <= Len(current_generation)
  /\ \E k \in Feed(PoissonDraws) :
       /\ num_offspring' = k
       /\ draws' = Append(draws, k)
  /\ created' = 0
  /\ gw_pc' = "for_child"
  /\ UNCHANGED <<prog, springVars, replayVars, built, last_call, erVars, lam, max_generations,
                 tree, current_generation, next_generation, node_counter, generation,
                 reached_max, sizes_per_generation, parent_idx, child_id, layoutVars>>

\* for _ in range(num_offspring): child_id = node_counter; tree.add_node(...)
GWAddNode ==
  /\ prog = "gw" /\ gw_pc = "for_child" /\ created < num_offspring
  /\ child_id' = node_counter
  /\ tree' = Tree_add_node(tree, node_counter, generation)
  /\ gw_pc' = "add_edge"
  /\ UNCHANGED <<prog, springVars, replayVars, draws, built, last_call, erVars, lam,
                 max_generations, current_generation, next_generation, node_counter,
                 generation, reached_max, sizes_per_generation, parent_idx,
                 num_offspring, created, layoutVars>>

\* tree.add_edge(parent, child_id); next_generation.append; node_counter += 1
GWAddEdge ==
  /\ prog = "gw" /\ gw_pc = "add_edge"
  /\ tree' = Tree_add_edge(tree, current_generation[parent_idx], child_id)
  /\ next_generation' = Append(next_generation, child_id)
  /\ node_counter' = node_counter + 1
  /\ created' = created + 1
  /\ gw_pc' = "for_child"
  /\ UNCHANGED <<prog, springVars, replayVars, draws, built, last_call, erVars, lam,
                 max_generations, current_generation, generation, reached_max,
                 sizes_per_generation, parent_idx, num_offspring, child_id, layoutVars>>

\* the inner loop is exhausted: on to the next parent
GWNextParent ==
  /\ prog = "gw" /\ gw_pc = "for_child" /\ ~(created < num_offspring)
  /\ parent_idx' = parent_idx + 1
  /\ gw_pc' = "for_parent"
  /\ UNCHANGED <<prog, springVars, replayVars, draws, built, last_call, erVars, lam,
                 max_generations, tree, current_generation, next_generation,
                 node_counter, generation, reached_max, sizes_per_generation,
                 num_offspring, created, child_id, layoutVars>>

\* the final if without its test of current_generation
reached_max_after_counter_only(flag, gen, maxgen, cur) ==
  IF gen = maxgen THEN TRUE ELSE flag

\* `reached_max` after the step's final if
reached_max_after(flag, gen, maxgen, cur) ==
  IF gen = maxgen /\ cur # <<>> THEN TRUE ELSE flag

Reverse(s) == [k \in 1..Len(s) |-> s[Len(s) + 1 - k]]

\* GWEndStep with next_generation kept as a set, whose iteration order is not
\* fixed: either order of its members becomes the current generation
GWEndStep_unordered ==
  /\ prog = "gw" /\ gw_pc = "for_parent" /\ ~(parent_idx <= Len(current_generation))
  /\ current_generation' \in {next_generation, Reverse(next_generation)}
  /\ sizes_per_generation' = Append(sizes_per_generation, Len(next_generation))
  /\ reached_max' = reached_max_after(reached_max, generation, max_generations,
                                      next_generation)
  /\ gw_pc' = "while"
  /\ UNCHANGED <<prog, springVars, replayVars, draws, built, last_call, erVars, lam,
                 max_generations, tree, next_generation, node_counter, generation,
                 parent_idx, num_offspring, created, child_id, layoutVars>>

\* GWEndStep with the size taken before current_generation is reassigned
GWEndStep_stale_size ==
  /\ prog = "gw" /\ gw_pc = "for_parent" /\ ~(parent_idx <= Len(current_generation))
  /\ current_generation' = next_generation
  /\ sizes_per_generation' = Append(sizes_per_generation, Len(current_generation))
  /\ reached_max' = reached_max_after(reached_max, generation, max_generations,
                                      next_generation)
  /\ gw_pc' = "while"
  /\ UNCHANGED <<prog, springVars, replayVars, draws, built, last_call, erVars, lam,
                 max_generations, tree, next_generation, node_counter, generation,
                 parent_idx, num_offspring, created, child_id, layoutVars>>

\* the outer for is exhausted: the end of the generation step
GWEndStep ==
  /\ prog = "gw" /\ gw_pc = "for_parent" /\ ~(parent_idx <= Len(current_generation))
  /\ current_generation' = next_generation
  /\ sizes_per_generation' = Append(sizes_per_generation, Len(next_generation))
  /\ reached_max' = reached_max_after(reached_max, generation, max_generations,
                                      next_generation)
  /\ gw_pc' = "while"
  /\ UNCHANGED <<prog, springVars, replayVars, draws, built, last_call, erVars, lam,
                 max_generations, tree, next_generation, node_counter, generation,
                 parent_idx, num_offspring, created, child_id, layoutVars>>

\* ------------------------------------------------------------ radial layout
MinRadiusPct == 8
HundredPct == 100

\* collect_leaves(node), and its loop over a list of children
RECURSIVE collect_leaves(_, _)
RECURSIVE collect_leaves_of(_, _)
collect_leaves(t, node) ==
  LET children == DictGet(t.children, node, <<>>)
  IN IF children = <<>> THEN <<node>> ELSE collect_leaves_of(t, children)

collect_leaves_of(t, cs) ==
  IF cs = <<>> THEN <<>>
  ELSE collect_leaves(t, cs[1]) \o collect_leaves_of(t, Tail(cs))

\* enumerate(leaves, 1) for enumerate(leaves)
leaf_angle_of_off_by_one(k, n_leaves) == 2 * k

\* 2*pi*i/n_leaves for the leaf at 1-based place k of `leaves` (i = k - 1), in
\* units of pi/n_leaves
leaf_angle_of(k, n_leaves) == 2 * (k - 1)

\* leaf_angles = {leaf: 2*pi*i/n_leaves for i, leaf in enumerate(leaves)}
leaf_angles_of(ls) ==
  [leaf \in Range(ls) |->
     leaf_angle_of(SetMax({k \in 1..Len(ls) : ls[k] = leaf}), Len(ls))]

\* assign_spans(node): the span it returns; n_leaves units are pi
RECURSIVE assign_spans(_, _, _, _)
assign_spans(t, la, n_leaves, node) ==
  LET children == DictGet(t.children, node, <<>>)
  IN IF children = <<>> THEN <<la[node], la[node]>>
     ELSE LET child_spans == [k \in 1..Len(children) |->
                                assign_spans(t, la, n_leaves, children[k])]
              a_min == SetMin({child_spans[k][1] : k \in 1..Len(children)})
              a_max == SetMax({child_spans[k][2] : k \in 1..Len(children)})
              unwrapped == [k \in 1..Len(children) |->
                              <<IF child_spans[k][1] < n_leaves
                                THEN child_spans[k][1] + 2 * n_leaves
                                ELSE child_spans[k][1],
                                IF child_spans[k][2] < n_leaves
                                THEN child_spans[k][2] + 2 * n_leaves
                                ELSE child_spans[k][2]>>]
              u_min == SetMin({unwrapped[k][1] : k \in 1..Len(children)})
              u_max == SetMax({unwrapped[k][2] : k \in 1..Len(children)})
          IN IF a_max - a_min > n_leaves
             THEN <<u_min % (2 * n_leaves), u_max % (2 * n_leaves)>>
             ELSE <<a_min, a_max>>

\* the nodes assign_spans(node) visits, each of which gets a span entry
RECURSIVE visited_from(_, _)
visited_from(t, node) ==
  LET children == DictGet(t.children, node, <<>>)
  IN {node} \cup UNION {visited_from(t, children[k]) : k \in 1..Len(children)}

\* the midpoint without its /2
mid_angle_no_half(a_min, a_max, n_leaves) ==
  (a_min + ((a_max - a_min) % (2 * n_leaves))) % (2 * n_leaves)

\* mid_angle = (a_min + (a_max-a_min) % (2*pi)/2) % (2*pi)
mid_angle(a_min, a_max, n_leaves) ==
  (a_min + ((a_max - a_min) % (2 * n_leaves)) \div 2) % (2 * n_leaves)

\* min_r = 0.08*outer_radius for the root too
radius_min_everywhere(node, root, depth, max_level) ==
  MinRadiusPct * Max2(1, max_level) + depth * (HundredPct - MinRadiusPct)

\* r = min_r + (depth/max(1,max_level))*(outer_radius - min_r), as a numerator
\* over HundredPct * max(1, max_level), in units of outer_radius
radius(node, root, depth, max_level) ==
  LET min_r == IF node = root THEN 0 ELSE MinRadiusPct
  IN min_r * Max2(1, max_level) + depth * (HundredPct - min_r)

\* compute_radial_layout(tree, root=0): the leaves, their angles, the spans and
\* the positions, a position (r*cos(a), r*sin(a)) kept as its r and a
compute_radial_layout(t, root) ==
  IF t.nodes = <<>>
  THEN [leaves |-> <<>>, leaf_angles |-> EmptyDict, span |-> EmptyDict, pos |-> EmptyDict]
  ELSE LET max_level == IF DOMAIN t.levels # {}
                        THEN SetMax({t.levels[x] : x \in DOMAIN t.levels}) ELSE 0
           ls == collect_leaves(t, root)
           n_leaves == Len(ls)
           la == leaf_angles_of(ls)
           sp == [x \in visited_from(t, root) |-> assign_spans(t, la, n_leaves, x)]
       IN [leaves |-> ls, leaf_angles |-> la, span |-> sp,
           pos |-> [x \in Range(t.nodes) |->
                      [r |-> radius(x, root, DictGet(t.levels, x, 0), max_level),
                       angle |-> mid_angle(sp[x][1], sp[x][2], n_leaves)]]]

\* refresh_tree, after generate_galton_watson_tree has returned: the
\* truncated flag, and draw_tree's call of compute_radial_layout
GWRefresh ==
  /\ prog = "gw" /\ gw_pc = "done"
  /\ truncated' = (reached_max /\ Len(tree.nodes) > 0)
  /\ LET lay == compute_radial_layout(tree, 0)
     IN /\ leaves' = lay.leaves
        /\ leaf_angles' = lay.leaf_angles
        /\ span' = lay.span
        /\ pos' = lay.pos
  /\ gw_pc' = "drawn"
  /\ UNCHANGED <<prog, springVars, replayVars, draws, built, last_call, erVars, lam,
                 max_generations, tree, current_generation, next_generation,
                 node_counter, generation, reached_max, sizes_per_generation,
                 parent_idx, num_offspring, created, child_id>>

\* ------------------------------------------------------------ spring layout
\* generate_spring_positions(graph, iterations, k, initial_temp). The positions
\* and forces are real vectors computed with sqrt and are not represented; the
\* model keeps what scales every position update: the temperature and the step
\* size of each iteration, both as numerators over TenthDen * iterations.
TenthDen == 10

\* the cooling schedule with the iteration counted from 1
cooling_from_one(t0, it, its) == TenthDen * t0 * (its - (it + 1))

\* temp = initial_temp * (1 - iteration / iterations)
cooling(t0, it, its) == TenthDen * t0 * (its - it)

\* step_size = 0.1 * temp
step_size_of(tmp) == tmp \div TenthDen

\* entry: n == 0 returns {} at once, otherwise the random initial positions
SpringCall ==
  /\ prog = "spring" /\ sp_pc = "call"
  /\ IF graph.n_nodes = 0
     THEN sp_pc' = "done" /\ UNCHANGED iteration
     ELSE sp_pc' = "loop" /\ iteration' = 0
  /\ UNCHANGED <<prog, replayVars, draws, built, last_call, erVars, gwVars,
                 layoutVars, iterations, initial_temp, temp, step_size, schedule>>

\* for iteration in range(iterations): one iteration, its forces scaled by
\* step_size in the position update
SpringIterate ==
  /\ prog = "spring" /\ sp_pc = "loop" /\ iteration < iterations
  /\ temp' = cooling(initial_temp, iteration, iterations)
  /\ step_size' = step_size_of(temp')
  /\ schedule' = Append(schedule, [iteration |-> iteration, temp |-> temp',
                                   step_size |-> step_size'])
  /\ iteration' = iteration + 1
  /\ UNCHANGED <<prog, replayVars, draws, built, last_call, erVars, gwVars,
                 layoutVars, iterations, initial_temp, sp_pc>>

\* the loop is exhausted: return positions
SpringReturn ==
  /\ prog = "spring" /\ sp_pc = "loop" /\ ~(iteration < iterations)
  /\ sp_pc' = "done"
  /\ UNCHANGED <<prog, replayVars, draws, built, last_call, erVars, gwVars,
                 layoutVars, iterations, initial_temp, iteration, temp, step_size,
                 schedule>>

\* ------------------------------------------------------------- second run
NoOutput == [graph |-> Graph(0), tree |-> Tree, reached_max |-> FALSE,
             sizes_per_generation |-> <<>>, n_draws |-> 0]

\* what a run returns, with the number of draws it consumed
Output ==
  [graph |-> graph, tree |-> tree, reached_max |-> reached_max,
   sizes_per_generation |-> sizes_per_generation, n_draws |-> Len(draws)]

\* generate_erdos_renyi is called again with the same (n, p), the random
\* source reset to the state it had before the first call
ERRerun ==
  /\ prog = "er" /\ er_pc = "done" /\ run = 1
  /\ run' = 2 /\ tape' = draws /\ saved' = Output
  /\ draws' = <<>> /\ examined' = <<>>
  /\ graph' = Graph(0) /\ built' = {}
  /\ i' = 0 /\ j' = 0
  /\ er_pc' = "call"
  /\ UNCHANGED <<prog, springVars, last_call, n, p, gwVars, layoutVars>>

\* generate_galton_watson_tree is called again with the same (lam,
\* max_generations), the random source reset likewise
GWRerun ==
  /\ prog = "gw" /\ gw_pc = "done" /\ run = 1
  /\ run' = 2 /\ tape' = draws /\ saved' = Output
  /\ draws' = <<>>
  /\ tree' = Tree /\ built' = {}
  /\ current_generation' = <<>> /\ next_generation' = <<>>
  /\ node_counter' = 0 /\ generation' = 0 /\ reached_max' = FALSE
  /\ sizes_per_generation' = <<>>
  /\ parent_idx' = 0 /\ num_offspring' = 0 /\ created' = 0 /\ child_id' = 0
  /\ gw_pc' = "call"
  /\ UNCHANGED <<prog, springVars, last_call, erVars, lam, max_generations, layoutVars>>

\* ------------------------------------------------------------ specification
IdleCommon ==
  /\ run = 1 /\ tape = <<>> /\ saved = NoOutput
  /\ draws = <<>> /\ examined = <<>> /\ last_call = "none"
  /\ leaves = <<>> /\ leaf_angles = EmptyDict /\ span = EmptyDict /\ pos = EmptyDict
  /\ truncated = FALSE

IdleSpring ==
  /\ iterations = 0 /\ initial_temp = 0 /\ iteration = 0 /\ temp = 0 /\ step_size = 0
  /\ sp_pc = "idle" /\ schedule = <<>>

IdleER == n = 0 /\ p = 0 /\ graph = Graph(0) /\ i = 0 /\ j = 0 /\ er_pc = "idle"

IdleGW ==
  /\ lam = 0 /\ max_generations = 0 /\ tree = Tree
  /\ current_generation = <<>> /\ next_generation = <<>>
  /\ node_counter = 0 /\ generation = 0 /\ reached_max = FALSE
  /\ sizes_per_generation = <<>>
  /\ parent_idx = 0 /\ num_offspring = 0 /\ created = 0 /\ child_id = 0
  /\ gw_pc = "idle"

\* generate_erdos_renyi(n, p) is about to be called
InitER ==
  /\ prog = "er" /\ IdleCommon /\ IdleGW /\ IdleSpring /\ built = {}
  /\ n \in -1..MaxN /\ p \in -1..(Res + 1)
  /\ graph = Graph(0) /\ i = 0 /\ j = 0 /\ er_pc = "call"

\* generate_galton_watson_tree(lam, max_generations) is about to be called
InitGW ==
  /\ prog = "gw" /\ IdleCommon /\ IdleER /\ IdleSpring /\ built = {}
  /\ lam \in -1..MaxLam /\ max_generations \in -1..MaxGen
  /\ tree = Tree
  /\ current_generation = <<>> /\ next_generation = <<>>
  /\ node_counter = 0 /\ generation = 0 /\ reached_max = FALSE
  /\ sizes_per_generation = <<>>
  /\ parent_idx = 0 /\ num_offspring = 0 /\ created = 0 /\ child_id = 0
  /\ gw_pc = "call"

\* a caller has constructed Graph(n)
InitGraph ==
  /\ prog = "graph" /\ IdleCommon /\ IdleGW /\ IdleSpring /\ built = {"graph"}
  /\ n \in 0..MaxN /\ p = 0
  /\ graph = Graph(n) /\ i = 0 /\ j = 0 /\ er_pc = "idle"

\* generate_spring_positions(graph, iterations, k, initial_temp) is about to be
\* called on a Graph of n nodes
InitSpring ==
  /\ prog = "spring" /\ IdleCommon /\ IdleGW /\ built = {"graph"}
  /\ n \in 0..MaxN /\ p = 0
  /\ graph = Graph(n) /\ i = 0 /\ j = 0 /\ er_pc = "idle"
  /\ iterations \in 0..MaxIter /\ initial_temp \in 1..MaxTemp
  /\ iteration = 0 /\ temp = 0 /\ step_size = 0
  /\ sp_pc = "call" /\ schedule = <<>>

Init == InitER \/ InitGW \/ InitGraph \/ InitSpring

\* the steps of generate_galton_watson_tree itself
GWGenerate ==
  \/ GWCall \/ GWWhile \/ GWDraw \/ GWAddNode \/ GWAddEdge \/ GWNextParent
  \/ GWEndStep

NextGW == GWGenerate \/ GWRefresh

Next ==
  \/ ERCall \/ ERPair \/ ERReturn \/ ERRerun
  \/ GraphAddEdge
  \/ GWCall \/ GWWhile \/ GWDraw \/ GWAddNode \/ GWAddEdge \/ GWNextParent
  \/ GWEndStep \/ GWRefresh \/ GWRerun
  \/ SpringCall \/ SpringIterate \/ SpringReturn

Spec == Init /\ [][Next]_vars

\* generate_galton_watson_tree and refresh_tree alone; a call of the generator
\* that has begun runs on: the code is one thread with nothing to wait for
SpecGW == InitGW /\ [][NextGW]_vars /\ WF_vars(GWGenerate)

\* ------------------------------------------------------------------ claims
ERDone == prog = "er" /\ er_pc = "done"

GWDone == prog = "gw" /\ gw_pc = "done"

\* the unordered pair {a, b} occurs this many times in the edge list
PairCount(edges, a, b) ==
  Cardinality({k \in 1..Len(edges) : edges[k] = <<a, b>> \/ edges[k] = <<b, a>>})

\* C1: generate_erdos_renyi(n, 0) returns a Graph with no edges, and
\* generate_erdos_renyi(n, 1) returns the complete graph: n(n-1)/2 edges, every
\* pair a < b among them, no unordered pair twice and no self-loop.
C1_ExtremeProbabilities ==
  ERDone =>
    /\ (p = 0 => Len(graph.edges) = 0)
    /\ (p = Res =>
          /\ Len(graph.edges) = (n * (n - 1)) \div 2
          /\ \A a \in 0..(n - 1), b \in 0..(n - 1) :
               /\ a < b => <<a, b>> \in Range(graph.edges)
               /\ a # b => PairCount(graph.edges, a, b) = 1
               /\ PairCount(graph.edges, a, a) = 0)

C1_Witness == ERDone /\ run = 1 /\ p = Res /\ n = 3 /\ Len(graph.edges) = 3

\* C2: after any sequence of add_edge calls with ids in 0..n_nodes-1, and in
\* every Graph generate_erdos_renyi builds: v is in adjacency[u] iff u is in
\* adjacency[v] iff {u, v} is in edges; no adjacency list holds its own node or
\* an entry twice; each unordered pair is in edges at most once; and n_nodes
\* is the value the Graph was constructed with.
C2_GraphInvariant ==
  "graph" \in built =>
    /\ graph.n_nodes = n
    /\ DOMAIN graph.adjacency = 0..(n - 1)
    /\ \A k \in 1..Len(graph.edges) :
         graph.edges[k][1] \in 0..(n - 1) /\ graph.edges[k][2] \in 0..(n - 1)
    /\ \A u \in 0..(n - 1), v \in 0..(n - 1) :
         /\ InSeq(v, graph.adjacency[u]) <=> InSeq(u, graph.adjacency[v])
         /\ InSeq(v, graph.adjacency[u]) <=> PairCount(graph.edges, u, v) >= 1
         /\ PairCount(graph.edges, u, v) <= 1
         /\ Cardinality({k \in 1..Len(graph.adjacency[u]) : graph.adjacency[u][k] = v}) <= 1
    /\ \A u \in 0..(n - 1) : ~InSeq(u, graph.adjacency[u])

C2_Witness ==
  /\ prog = "graph" /\ last_call = "ignored" /\ n = 3
  /\ Len(graph.edges) = 3
  /\ \E k \in 1..Len(graph.edges) : graph.edges[k][1] > graph.edges[k][2]

\* C3: once generate_galton_watson_tree has passed its parameter checks,
\* sizes_per_generation[0] is 1, and total_population() equals the sum of
\* sizes_per_generation before the first generation step, at the end of every
\* generation step and at return.
C3_PopulationIsSumOfSizes ==
  (prog = "gw" /\ "tree" \in built) =>
    /\ sizes_per_generation[1] = 1
    /\ gw_pc \in {"while", "done", "drawn"} =>
         total_population(tree) = SumSeq(sizes_per_generation)

C3_Witness ==
  /\ GWDone /\ run = 1 /\ Len(sizes_per_generation) = 4
  /\ total_population(tree) = SumSeq(sizes_per_generation)
  /\ sizes_per_generation[2] = 2 /\ sizes_per_generation[3] = 3

\* the nodes reached from `from` by following children lists, `k` levels deep
RECURSIVE ReachedWithin(_, _, _)
ReachedWithin(t, from, k) ==
  IF k = 0 THEN from
  ELSE ReachedWithin(t,
         from \cup UNION {Range(DictGet(t.children, x, <<>>)) : x \in from}, k - 1)

Occurrences(s, x) == Cardinality({k \in 1..Len(s) : s[k] = x})

\* the Tree invariants of C4
TreeShape(t) ==
  LET ids == Range(t.nodes)
  IN /\ \A x \in ids : Occurrences(t.nodes, x) = 1
     /\ {x \in ids : x \notin DOMAIN t.parents} = {0}
     /\ DOMAIN t.levels = ids /\ t.levels[0] = 0
     /\ DOMAIN t.parents \subseteq ids
     /\ \A x \in DOMAIN t.parents :
          /\ t.parents[x] \in ids
          /\ Cardinality({k \in 1..Len(t.edges) : t.edges[k][2] = x}) = 1
          /\ Occurrences(t.edges, <<t.parents[x], x>>) = 1
          /\ \A q \in DOMAIN t.children :
               Occurrences(t.children[q], x) = (IF q = t.parents[x] THEN 1 ELSE 0)
          /\ t.levels[x] = t.levels[t.parents[x]] + 1
     /\ \A q \in DOMAIN t.children : ~InSeq(0, t.children[q])
     /\ ReachedWithin(t, {0}, Len(t.nodes)) = ids

\* C4 as stated: the Tree invariants in every state reached while
\* generate_galton_watson_tree builds its Tree, and in the returned Tree.
C4_TreeShapeInEveryState ==
  (prog = "gw" /\ "tree" \in built) => TreeShape(tree)

\* C4, amended: node 0 is the only node without a parent and has level 0, every
\* other node has exactly one parent and is in exactly its parent's children
\* list, levels[child] = levels[parents[child]] + 1, and every node is reached
\* from the root through children, in every state of the construction except
\* between tree.add_node(child_id, ...) and the tree.add_edge(parent, child_id)
\* that follows it, and in the returned Tree.
C4_TreeShapeBetweenInsertions ==
  (prog = "gw" /\ "tree" \in built /\ gw_pc # "add_edge") => TreeShape(tree)

C4_Witness ==
  /\ prog = "gw" /\ gw_pc = "for_child" /\ run = 1
  /\ generation = 3 /\ created = 1 /\ num_offspring = 2
  /\ Len(tree.nodes) >= 5
  /\ TreeShape(tree)

\* C5: at return the flag is true iff the generation counter equals
\* max_generations and the last entry of sizes_per_generation is positive;
\* otherwise it is false and that last entry is 0; refresh_tree's `truncated`
\* is the flag.
C5_FlagOnlyWhenTruncated ==
  /\ GWDone =>
       /\ reached_max <=>
            (generation = max_generations
             /\ sizes_per_generation[Len(sizes_per_generation)] > 0)
       /\ ~reached_max => sizes_per_generation[Len(sizes_per_generation)] = 0
       /\ reached_max <=> current_generation # <<>>
  /\ (prog = "gw" /\ gw_pc = "drawn") => (truncated <=> reached_max)

C5_Witness ==
  /\ prog = "gw" /\ gw_pc = "drawn" /\ ~truncated
  /\ max_generations = 2 /\ generation = max_generations
  /\ sizes_per_generation = <<1, 2, 0>>

\* C6: generate_erdos_renyi raises iff n < 0 or p is outside [0,1], and
\* generate_galton_watson_tree raises iff lam <= 0 or max_generations <= 0; a
\* call that raises has consumed no draw and has built no Graph or Tree.
C6_InvalidParameter ==
  /\ (prog = "er" /\ er_pc # "call") =>
       /\ er_pc = "error" <=> (n < 0 \/ p < 0 \/ p > Res)
       /\ er_pc = "error" => (draws = <<>> /\ "graph" \notin built)
  /\ (prog = "gw" /\ gw_pc # "call") =>
       /\ gw_pc = "error" <=> (lam <= 0 \/ max_generations <= 0)
       /\ gw_pc = "error" => (draws = <<>> /\ "tree" \notin built)

C6_Witness == prog = "er" /\ er_pc = "error" /\ n = -1 /\ p = 1

\* the nodes of t in pre-order, depth first, from a stack of pending nodes
RECURSIVE PreOrder(_, _)
PreOrder(t, stack) ==
  IF stack = <<>> THEN <<>>
  ELSE <<stack[1]>> \o PreOrder(t, DictGet(t.children, stack[1], <<>>) \o Tail(stack))

IsLeaf(t, x) == DictGet(t.children, x, <<>>) = <<>>

LeavesInPreOrder(t) == SelectSeq(PreOrder(t, <<0>>), LAMBDA x : IsLeaf(t, x))

\* C7: the layout puts the root at (0, 0), i.e. at radius 0; the leaves it
\* collects are the leaves in pre-order, and the one at 0-based place i of
\* n_leaves is put at angle 2*pi*i/n_leaves (2*i units of pi/n_leaves), at a
\* positive radius unless it is the root, so consecutive leaves are
\* 2*pi/n_leaves apart and no two leaves share an angle.
C7_RootAtOriginLeavesEvenlySpaced ==
  (prog = "gw" /\ gw_pc = "drawn") =>
    /\ pos[0].r = 0
    /\ leaves = LeavesInPreOrder(tree)
    /\ Len(leaves) >= 1
    /\ \A k \in 1..Len(leaves) :
         /\ pos[leaves[k]].angle = 2 * (k - 1)
         /\ pos[leaves[k]].angle < 2 * Len(leaves)
         /\ leaves[k] # 0 => pos[leaves[k]].r > 0
         /\ k > 1 => pos[leaves[k]].angle - pos[leaves[k - 1]].angle = 2
    /\ \A k1 \in 1..Len(leaves), k2 \in 1..Len(leaves) :
         k1 # k2 => pos[leaves[k1]].angle # pos[leaves[k2]].angle

C7_Witness ==
  /\ prog = "gw" /\ gw_pc = "drawn" /\ run = 1
  /\ Len(leaves) = 4
  /\ \E k1 \in 1..4, k2 \in 1..4 : tree.levels[leaves[k1]] < tree.levels[leaves[k2]]
  /\ leaves # SelectSeq(tree.nodes, LAMBDA x : IsLeaf(tree, x))
  /\ pos[leaves[4]].angle = 6

\* the pairs (a, b), a < b < nn, in lexicographic order
PairBefore(x, y) == x[1] < y[1] \/ (x[1] = y[1] /\ x[2] < y[2])

AllPairs(nn) == {<<a, b>> : a \in 0..(nn - 1), b \in 0..(nn - 1)} \cap
                {x \in (0..(nn - 1)) \X (0..(nn - 1)) : x[1] < x[2]}

\* C8: generate_erdos_renyi makes one draw per examined pair; the pairs it
\* examines are pairs i < j < n, in strictly increasing lexicographic order
\* (so none twice), and at return they are all of them, so n(n-1)/2 draws have
\* been consumed whatever p is; a pair is an edge iff its draw was < p.
C8_OneDrawPerPairInOrder ==
  (prog = "er" /\ "graph" \in built) =>
    /\ Len(draws) = Len(examined)
    /\ \A k \in 1..Len(examined) :
         /\ examined[k] \in AllPairs(n)
         /\ k > 1 => PairBefore(examined[k - 1], examined[k])
         /\ (examined[k] \in Range(graph.edges)) <=> (draws[k] < p)
    /\ Range(graph.edges) \subseteq Range(examined)
    /\ er_pc = "done" =>
         /\ Range(examined) = AllPairs(n)
         /\ Len(draws) = (n * (n - 1)) \div 2

C8_Witness ==
  /\ ERDone /\ run = 1 /\ n = 3 /\ p = 1
  /\ draws = <<1, 0, 1>>
  /\ examined = <<<<0, 1>>, <<0, 2>>, <<1, 2>>>>
  /\ graph.edges = <<<<0, 2>>>>

C10_CounterBounded ==
  (prog = "gw" /\ "tree" \in built) =>
    /\ 0 <= generation /\ generation <= max_generations
    /\ gw_pc \in {"while", "done", "drawn"} =>
         Len(sizes_per_generation) = generation + 1
    /\ gw_pc \in {"done", "drawn"} =>
         /\ current_generation = <<>> \/ generation = max_generations
         /\ 2 <= Len(sizes_per_generation)
         /\ Len(sizes_per_generation) <= max_generations + 1

\* C10, the steps: the counter changes only by +1, only while the current
\* generation is non-empty and the counter is below max_generations; with the
\* current generation empty the loop test returns.
C10_StepOnlyWhileAlive ==
  /\ generation' # generation =>
       /\ current_generation # <<>> /\ generation < max_generations
       /\ generation' = generation + 1
  /\ (gw_pc = "while" /\ current_generation = <<>>) =>
       (gw_pc' = "done" /\ tree' = tree /\ draws' = draws)

C10_Returned == gw_pc \in {"done", "drawn", "error"}

\* C10: generate_galton_watson_tree always returns (or raises, on invalid
\* parameters); a generation step is taken only while ALIVE, adds exactly 1 to
\* the counter, which never exceeds max_generations; and the returned
\* sizes_per_generation has (final counter + 1) entries, between 2 and
\* max_generations + 1.
C10_AlwaysTerminates ==
  /\ []C10_CounterBounded
  /\ [][C10_StepOnlyWhileAlive]_vars
  /\ <>C10_Returned

C10_Witness ==
  /\ GWDone /\ max_generations = 3 /\ generation = 3
  /\ Len(sizes_per_generation) = 4
  /\ current_generation # <<>>

\* the leaves of the subtree of x
SubtreeLeaves(t, x) ==
  {y \in ReachedWithin(t, {x}, Len(t.nodes)) : IsLeaf(t, y)}

\* angle a lies on the arc that runs counter-clockwise from s0 to s1
OnArc(a, s0, s1, n_leaves) ==
  (a - s0) % (2 * n_leaves) <= (s1 - s0) % (2 * n_leaves)

\* C11: in the radial layout, for every internal node, the arc from span_start
\* counter-clockwise to span_end contains the assigned angle of every leaf of
\* the node's subtree (also after the wrap-around resolution), and the node's
\* angle is the midpoint of that arc.
C11_SpanCoversSubtreeLeaves ==
  (prog = "gw" /\ gw_pc = "drawn") =>
    \A x \in Range(tree.nodes) :
      ~IsLeaf(tree, x) =>
        /\ \A y \in SubtreeLeaves(tree, x) :
             OnArc(leaf_angles[y], span[x][1], span[x][2], Len(leaves))
        /\ 2 * ((pos[x].angle - span[x][1]) % (2 * Len(leaves)))
             = (span[x][2] - span[x][1]) % (2 * Len(leaves))

\* C12 as stated: the temperature of the final iteration is 0, so the step
\* size of the last position update is 0.
C12_CoolsToZeroAtLastIteration ==
  (prog = "spring" /\ sp_pc = "done" /\ schedule # <<>>) =>
    /\ schedule[Len(schedule)].temp = 0
    /\ schedule[Len(schedule)].step_size = 0

\* C12, amended: the temperature of iteration t (0-indexed) is
\* initial_temp*(1 - t/iterations) and its step size a tenth of that; it is
\* initial_temp at t = 0 and falls by initial_temp/iterations per iteration;
\* every iteration 0..iterations-1 is run, and at the final one the
\* temperature is initial_temp/iterations, not 0, so the step size of the last
\* position update is 0.1*initial_temp/iterations > 0.
C12_LinearCoolingAboveZero ==
  prog = "spring" =>
    /\ \A k \in 1..Len(schedule) :
         /\ schedule[k].iteration = k - 1
         /\ schedule[k].temp = TenthDen * initial_temp * iterations
                                 - TenthDen * initial_temp * (k - 1)
         /\ TenthDen * schedule[k].step_size = schedule[k].temp
         /\ k = 1 => schedule[k].temp = TenthDen * initial_temp * iterations
         /\ k > 1 => schedule[k - 1].temp - schedule[k].temp = TenthDen * initial_temp
         /\ schedule[k].temp > 0
    /\ sp_pc = "done" =>
         /\ Len(schedule) = (IF n = 0 THEN 0 ELSE iterations)
         /\ schedule # <<>> =>
              /\ schedule[Len(schedule)].temp = TenthDen * initial_temp
              /\ schedule[Len(schedule)].step_size = initial_temp

C12_Witness ==
  /\ prog = "spring" /\ sp_pc = "done" /\ n = 2
  /\ iterations = 3 /\ initial_temp = 2
  /\ Len(schedule) = 3
  /\ schedule[3].temp = 20 /\ schedule[3].step_size = 2

\* C13: at the end of every generation step and at return, for every generation
\* g recorded in sizes_per_generation, sizes_per_generation[g] is the number of
\* Tree nodes of level g, and no node has a level beyond the recorded ones; in
\* every state, the node ids are 0..total_population()-1 in creation order,
\* none reused, and the level does not decrease as the id grows.
C13_SizesCountLevels ==
  (prog = "gw" /\ "tree" \in built) =>
    /\ tree.nodes = [k \in 1..total_population(tree) |-> k - 1]
    /\ node_counter = total_population(tree) - (IF gw_pc = "add_edge" THEN 1 ELSE 0)
    /\ DOMAIN tree.levels = 0..(total_population(tree) - 1)
    /\ \A x \in DOMAIN tree.levels, y \in DOMAIN tree.levels :
         x <= y => tree.levels[x] <= tree.levels[y]
    /\ gw_pc \in {"while", "done", "drawn"} =>
         /\ \A g \in 1..Len(sizes_per_generation) :
              sizes_per_generation[g] =
                Cardinality({x \in DOMAIN tree.levels : tree.levels[x] = g - 1})
         /\ \A x \in DOMAIN tree.levels : tree.levels[x] < Len(sizes_per_generation)

C13_Witness ==
  /\ prog = "gw" /\ gw_pc = "while" /\ run = 1
  /\ generation = 2 /\ max_generations = 3
  /\ sizes_per_generation = <<1, 3, 2>>
  /\ tree.levels[5] = 2 /\ tree.levels[3] = 1

====
